---------------------------- MODULE Spec2Model ----------------------------
(***************************************************************************)
(* Verification model of the native numerical kernels of compas:           *)
(*   - drx_solver_c     (src/compas_hpc/algorithms/drx_c.c)                *)
(*   - smooth_centroid  (src/compas/geometry/algorithms/_smoothing_cpp)    *)
(*   - fd               (src/compas/numerical/fd/__fd_cpp)                 *)
(*                                                                         *)
(* A C double is modelled as an extended rational <<n, d>>: d > 0 is the   *)
(* finite value n/d in lowest terms, <<1,0>> and <<-1,0>> are +inf and     *)
(* -inf, <<0,0>> is NaN.  Arithmetic is exact (no rounding); division by   *)
(* zero and the NaN rules follow IEEE-754.  The DRX networks of the model  *)
(* lie on the x axis (every y and z component is 0), where the square      *)
(* roots taken by gsl_hypot3 and gsl_blas_dnrm2 are exact.                 *)
(***************************************************************************)
EXTENDS Integers, Sequences, FiniteSets, TLC

\* ------------------------------------------------------------------------
\* Bounds of the model
\* ------------------------------------------------------------------------
MaxSteps == 2

\* ------------------------------------------------------------------------
\* double arithmetic
\* ------------------------------------------------------------------------
Abs(x) == IF x < 0 THEN -x ELSE x

Sgn(x) == IF x < 0 THEN -1 ELSE IF x > 0 THEN 1 ELSE 0

RECURSIVE GCD(_, _)
GCD(a, b) == IF b = 0 THEN a ELSE GCD(b, a % b)

\* the double n/d (d = 0: an infinity or NaN)
R(n, d) ==
    IF d = 0 THEN <<Sgn(n), 0>>
    ELSE LET g == GCD(Abs(n), Abs(d))
             s == Sgn(d)
         IN  <<(s * n) \div g, Abs(d) \div g>>

I(n) == <<n, 1>>

Zero == <<0, 1>>

One == <<1, 1>>

NaN == <<0, 0>>

IsNaN(a) == a = NaN

IsInf(a) == a[2] = 0 /\ a[1] # 0

IsFinite(a) == a[2] # 0

\* a + b
RAdd(a, b) ==
    IF IsNaN(a) \/ IsNaN(b) THEN NaN
    ELSE IF IsInf(a) /\ IsInf(b) THEN (IF a = b THEN a ELSE NaN)
    ELSE IF IsInf(a) THEN a
    ELSE IF IsInf(b) THEN b
    ELSE R(a[1] * b[2] + b[1] * a[2], a[2] * b[2])

\* -a
RNeg(a) == <<-a[1], a[2]>>

\* a - b
RSub(a, b) == RAdd(a, RNeg(b))

\* a * b   (0 * inf = NaN, NaN * x = NaN)
RMul(a, b) == R(a[1] * b[1], a[2] * b[2])

\* a / b   (x / 0 = +-inf, 0 / 0 = NaN, x / inf = 0, inf / inf = NaN)
RDiv(a, b) ==
    IF IsNaN(a) \/ IsNaN(b) THEN NaN
    ELSE IF b = Zero THEN R(a[1], 0)
    ELSE IF IsInf(b) THEN (IF IsInf(a) THEN NaN ELSE Zero)
    ELSE R(a[1] * b[2] * Sgn(b[1]), a[2] * Abs(b[1]))

\* a < b   (false when either is NaN)
RLt(a, b) ==
    IF IsNaN(a) \/ IsNaN(b) THEN FALSE
    ELSE IF a[2] = 0 /\ b[2] = 0 THEN a[1] < b[1]
    ELSE a[1] * b[2] < b[1] * a[2]

\* a > b
RGt(a, b) == RLt(b, a)

\* a <= b  (false when either is NaN)
RLe(a, b) == ~IsNaN(a) /\ ~IsNaN(b) /\ ~RLt(b, a)

\* fabs(a)
RAbs(a) == <<Abs(a[1]), a[2]>>

\* gsl_pow_2(a)
Pow2(a) == RMul(a, a)

\* the integer root of a perfect square
ISqrt(k) == CHOOSE r \in 0..k : r * r = k

IsSquare(k) == \E r \in 0..k : r * r = k

\* sqrt(a), on the values whose root is a double of the model
RSqrt(a) ==
    CASE IsNaN(a) -> NaN
      [] a = <<1, 0>> -> a
      [] a = <<-1, 0>> -> NaN
      [] IsFinite(a) /\ a[1] < 0 -> NaN
      [] IsFinite(a) /\ a[1] >= 0 /\ IsSquare(a[1]) /\ IsSquare(a[2]) ->
             <<ISqrt(a[1]), ISqrt(a[2])>>

\* GSL_MAX(a, b) == ((a) > (b) ? (a) : (b))
GslMax(a, b) == IF RGt(a, b) THEN a ELSE b

\* gsl_hypot3(x, y, z)
Hypot3(x, y, z) ==
    LET xabs == RAbs(x)
        yabs == RAbs(y)
        zabs == RAbs(z)
        w == GslMax(xabs, GslMax(yabs, zabs))
    IN  IF w = Zero THEN Zero
        ELSE RMul(w, RSqrt(RAdd(RAdd(Pow2(RDiv(xabs, w)), Pow2(RDiv(yabs, w))),
                                Pow2(RDiv(zabs, w)))))

\* a C array written as a tuple: element i of the array is s[i + 1]
Arr(s) == [i \in 0..(Len(s) - 1) |-> s[i + 1]]

\* ------------------------------------------------------------------------
\* Vector kernel (geometry/basic_c.h): a gsl_vector of size 3 is a function
\* on 0..2
\* ------------------------------------------------------------------------
Comp == 0..2

NaNVec == [c \in Comp |-> NaN]

vector_from_pointer(A, p) == [c \in Comp |-> A[p + c]]

length_vector_squared(w) == RAdd(RAdd(Pow2(w[0]), Pow2(w[1])), Pow2(w[2]))

\* gsl_blas_dnrm2: the Euclidean norm
length_vector(w) == RSqrt(length_vector_squared(w))

scale_vector(w, a) == [c \in Comp |-> RMul(w[c], a)]

add_vectors(p, q) == [c \in Comp |-> RAdd(p[c], q[c])]

subtract_vectors(p, q) == [c \in Comp |-> RSub(p[c], q[c])]

cross_vectors(p, q) ==
    [c \in Comp |->
        CASE c = 0 -> RSub(RMul(p[1], q[2]), RMul(p[2], q[1]))
          [] c = 1 -> RSub(RMul(p[2], q[0]), RMul(p[0], q[2]))
          [] c = 2 -> RSub(RMul(p[0], q[1]), RMul(p[1], q[0]))]

\* ------------------------------------------------------------------------
\* drx_solver_c: the loop bodies.  a is the argument record of the call,
\* s the memory the call works on (the caller's X, V, S and the locals),
\* i the loop index.
\* ------------------------------------------------------------------------

\* lines 120-133: axial force of edge i and its Cartesian components
AxialBody(a, s, i) ==
    LET j == 3 * a.v[i]
        k == 3 * a.u[i]
        xd == RSub(s.X[j + 0], s.X[k + 0])
        yd == RSub(s.X[j + 1], s.X[k + 1])
        zd == RSub(s.X[j + 2], s.X[k + 2])
        l == Hypot3(xd, yd, zd)
        fi == RAdd(a.f0[i], RMul(a.k0[i], RSub(l, a.l0[i])))
        q == RDiv(fi, l)
    IN  [s EXCEPT !.f[i] = fi,
                  !.fx[i] = RMul(xd, q),
                  !.fy[i] = RMul(yd, q),
                  !.fz[i] = RMul(zd, q)]

\* lines 138-146: the tension-only loop tests and zeroes the edge whose
\* number is the loop counter i (ind_t itself is never read)
TensionBody(a, s, i) ==
    IF RLt(s.f[i], Zero)
    THEN [s EXCEPT !.fx[i] = Zero, !.fy[i] = Zero, !.fz[i] = Zero]
    ELSE s

\* lines 152-160: the compression-only loop, likewise on the loop counter
CompressionBody(a, s, i) ==
    IF RGt(s.f[i], Zero)
    THEN [s EXCEPT !.fx[i] = Zero, !.fy[i] = Zero, !.fz[i] = Zero]
    ELSE s

\* lines 166-172
ZeroSBody(a, s, i) ==
    LET j == i * 3
    IN  [s EXCEPT !.S[j + 0] = Zero, !.S[j + 1] = Zero, !.S[j + 2] = Zero]

\* lines 174-230: shear pair of beam triple i.  When the three nodes are
\* collinear (or coincide, or hold NaN) Qn is zero or NaN, 1/LQn is inf or
\* NaN and ex is NaN in every component; then Kx, Ky, Mc, ua and ub are NaN
\* in every component whatever kappa is.  A triple with a finite ex needs
\* acos and sin and lies outside the model (its networks are on the x axis).
ShearBody(a, s, i) ==
    LET pa == a.inds[i] * 3
        pb == a.indi[i] * 3
        pc3 == a.indf[i] * 3
        Xs == vector_from_pointer(s.X, pa)
        Xi == vector_from_pointer(s.X, pb)
        Xf == vector_from_pointer(s.X, pc3)
        Qa == subtract_vectors(Xi, Xs)
        Qb == subtract_vectors(Xf, Xi)
        Qn == cross_vectors(Qa, Qb)
        LQn == length_vector(Qn)
        ex == scale_vector(Qn, RDiv(One, LQn))
        ua == CASE \A c \in Comp : IsNaN(ex[c]) -> NaNVec
        ub == CASE \A c \in Comp : IsNaN(ex[c]) -> NaNVec
    IN  [s EXCEPT !.Sa[i] = ua, !.Sb[i] = ub]

\* lines 233-244
NansBody(a, s, i) ==
    [s EXCEPT !.nans[i] =
        IF \E j \in Comp : IsNaN(s.Sa[i][j]) \/ IsNaN(s.Sb[i][j]) THEN 1 ELSE 0]

\* lines 254-259, one j
AccumStep(a, s, i, j) ==
    LET pa == a.inds[i] * 3
        pb == a.indi[i] * 3
        pc3 == a.indf[i] * 3
        s1 == [s EXCEPT !.S[pa + j] = RAdd(@, s.Sa[i][j])]
        s2 == [s1 EXCEPT !.S[pb + j] = RSub(@, RAdd(s.Sa[i][j], s.Sb[i][j]))]
    IN  [s2 EXCEPT !.S[pc3 + j] = RAdd(@, s.Sb[i][j])]

\* lines 246-261
AccumBody(a, s, i) ==
    IF s.nans[i] = 0
    THEN AccumStep(a, AccumStep(a, AccumStep(a, s, i, 0), i, 1), i, 2)
    ELSE s

\* lines 265-270
ZeroFrBody(a, s, i) ==
    [s EXCEPT !.frx[i] = Zero, !.fry[i] = Zero, !.frz[i] = Zero]

\* lines 272-277: the sparse scatter fr[rows[i]] += vals[i] * f[cols[i]]
ScatterBody(a, s, i) ==
    [s EXCEPT !.frx[a.rows[i]] = RAdd(@, RMul(a.vals[i], s.fx[a.cols[i]])),
              !.fry[a.rows[i]] = RAdd(@, RMul(a.vals[i], s.fy[a.cols[i]])),
              !.frz[a.rows[i]] = RAdd(@, RMul(a.vals[i], s.fz[a.cols[i]]))]

\* mutant: the residual is not multiplied by the constraint mask
VelocityBodyNoMask(a, s, i) ==
    LET j == 3 * i
        Rx == RSub(RSub(a.P[j + 0], s.S[j + 0]), s.frx[i])
        Ry == RSub(RSub(a.P[j + 1], s.S[j + 1]), s.fry[i])
        Rz == RSub(RSub(a.P[j + 2], s.S[j + 2]), s.frz[i])
        Mi == RMul(a.M[i], a.factor)
        Vx == RAdd(s.V[j + 0], RDiv(Rx, Mi))
        Vy == RAdd(s.V[j + 1], RDiv(Ry, Mi))
        Vz == RAdd(s.V[j + 2], RDiv(Rz, Mi))
    IN  [s EXCEPT !.Rn = RAdd(@, Hypot3(Rx, Ry, Rz)),
                  !.V[j + 0] = Vx,
                  !.V[j + 1] = Vy,
                  !.V[j + 2] = Vz,
                  !.Un = RAdd(@, RMul(Mi, RAdd(RAdd(Pow2(Vx), Pow2(Vy)), Pow2(Vz))))]

\* mutant: the mask multiplies the load only, not the whole residual
VelocityBodyMaskLoad(a, s, i) ==
    LET j == 3 * i
        Rx == RSub(RSub(RMul(a.P[j + 0], a.B[j + 0]), s.S[j + 0]), s.frx[i])
        Ry == RSub(RSub(RMul(a.P[j + 1], a.B[j + 1]), s.S[j + 1]), s.fry[i])
        Rz == RSub(RSub(RMul(a.P[j + 2], a.B[j + 2]), s.S[j + 2]), s.frz[i])
        Mi == RMul(a.M[i], a.factor)
        Vx == RAdd(s.V[j + 0], RDiv(Rx, Mi))
        Vy == RAdd(s.V[j + 1], RDiv(Ry, Mi))
        Vz == RAdd(s.V[j + 2], RDiv(Rz, Mi))
    IN  [s EXCEPT !.Rn = RAdd(@, Hypot3(Rx, Ry, Rz)),
                  !.V[j + 0] = Vx,
                  !.V[j + 1] = Vy,
                  !.V[j + 2] = Vz,
                  !.Un = RAdd(@, RMul(Mi, RAdd(RAdd(Pow2(Vx), Pow2(Vy)), Pow2(Vz))))]

\* lines 283-295: residual, velocity and energy of node i
VelocityBody(a, s, i) ==
    LET j == 3 * i
        Rx == RMul(RSub(RSub(a.P[j + 0], s.S[j + 0]), s.frx[i]), a.B[j + 0])
        Ry == RMul(RSub(RSub(a.P[j + 1], s.S[j + 1]), s.fry[i]), a.B[j + 1])
        Rz == RMul(RSub(RSub(a.P[j + 2], s.S[j + 2]), s.frz[i]), a.B[j + 2])
        Mi == RMul(a.M[i], a.factor)
        Vx == RAdd(s.V[j + 0], RDiv(Rx, Mi))
        Vy == RAdd(s.V[j + 1], RDiv(Ry, Mi))
        Vz == RAdd(s.V[j + 2], RDiv(Rz, Mi))
    IN  [s EXCEPT !.Rn = RAdd(@, Hypot3(Rx, Ry, Rz)),
                  !.V[j + 0] = Vx,
                  !.V[j + 1] = Vy,
                  !.V[j + 2] = Vz,
                  !.Un = RAdd(@, RMul(Mi, RAdd(RAdd(Pow2(Vx), Pow2(Vy)), Pow2(Vz))))]

\* lines 300-306: the kinetic-damping reset of node i
DampBody(a, s, i) ==
    LET j == 3 * i
    IN  [s EXCEPT !.V[j + 0] = Zero, !.V[j + 1] = Zero, !.V[j + 2] = Zero]

\* lines 312-318
AdvanceBody(a, s, i) ==
    LET j == 3 * i
    IN  [s EXCEPT !.X[j + 0] = RAdd(@, s.V[j + 0]),
                  !.X[j + 1] = RAdd(@, s.V[j + 1]),
                  !.X[j + 2] = RAdd(@, s.V[j + 2])]

\* the body of loop p
Body(p, a, s, i) ==
    CASE p = "axial" -> AxialBody(a, s, i)
      [] p = "unilT" -> TensionBody(a, s, i)
      [] p = "unilC" -> CompressionBody(a, s, i)
      [] p = "zeroS" -> ZeroSBody(a, s, i)
      [] p = "shear" -> ShearBody(a, s, i)
      [] p = "nans" -> NansBody(a, s, i)
      [] p = "accum" -> AccumBody(a, s, i)
      [] p = "zeroFr" -> ZeroFrBody(a, s, i)
      [] p = "scatter" -> ScatterBody(a, s, i)
      [] p = "velocity" -> VelocityBody(a, s, i)
      [] p = "damp" -> DampBody(a, s, i)
      [] p = "advance" -> AdvanceBody(a, s, i)

\* the loops of one iteration, in program order (lines 119-318)
PhaseSeq ==
    <<"axial", "unilT", "unilC", "zeroS", "shear", "nans", "accum",
      "zeroFr", "scatter", "velocity", "damp", "advance">>

\* mutant: the scatter and the beam accumulation are work-shared too
ParallelPhasesNaive ==
    {"axial", "unilT", "unilC", "zeroS", "nans", "accum", "zeroFr", "scatter",
     "velocity", "damp", "advance"}

\* the loops under "#pragma omp parallel for"; the others run on one thread
ParallelPhases ==
    {"axial", "unilT", "unilC", "zeroS", "nans", "zeroFr", "velocity",
     "damp", "advance"}

\* mutant: the reset also fires when Un equals Uo
IndicesLe(p, a, s) ==
    CASE p = "axial" -> 0..(a.m - 1)
      [] p = "unilT" -> IF a.ind_t_n > 0 THEN 0..(a.ind_t_n - 1) ELSE {}
      [] p = "unilC" -> IF a.ind_c_n > 0 THEN 0..(a.ind_c_n - 1) ELSE {}
      [] p = "zeroS" -> IF a.beams # 0 THEN 0..(a.n - 1) ELSE {}
      [] p \in {"shear", "nans", "accum"} ->
             IF a.beams # 0 THEN 0..(a.nb - 1) ELSE {}
      [] p \in {"zeroFr", "velocity", "advance"} -> 0..(a.n - 1)
      [] p = "scatter" -> 0..(a.nv - 1)
      [] p = "damp" -> IF RLe(s.Un, s.Uo) THEN 0..(a.n - 1) ELSE {}

\* the index range of loop p, empty when its enclosing if is not taken
Indices(p, a, s) ==
    CASE p = "axial" -> 0..(a.m - 1)
      [] p = "unilT" -> IF a.ind_t_n > 0 THEN 0..(a.ind_t_n - 1) ELSE {}
      [] p = "unilC" -> IF a.ind_c_n > 0 THEN 0..(a.ind_c_n - 1) ELSE {}
      [] p = "zeroS" -> IF a.beams # 0 THEN 0..(a.n - 1) ELSE {}
      [] p \in {"shear", "nans", "accum"} ->
             IF a.beams # 0 THEN 0..(a.nb - 1) ELSE {}
      [] p \in {"zeroFr", "velocity", "advance"} -> 0..(a.n - 1)
      [] p = "scatter" -> 0..(a.nv - 1)
      [] p = "damp" -> IF RLt(s.Un, s.Uo) THEN 0..(a.n - 1) ELSE {}

\* the straight-line statements that follow loop p
AfterLoop(p, a, s) ==
    CASE p = "scatter" -> [s EXCEPT !.Un = Zero, !.Rn = Zero]
      [] p = "damp" -> [s EXCEPT !.Uo = s.Un]
      [] p = "advance" ->
             [s EXCEPT !.res = RDiv(s.Rn, I(a.n)), !.ts = s.ts + 1]
      [] OTHER -> s

\* loop p run from index i to its end on one thread: t is the memory body
\* i leaves
RECURSIVE RunFrom(_, _, _, _, _)
RunFrom(p, a, s, i, N) ==
    IF i >= N THEN s
    ELSE CHOOSE r \in {RunFrom(p, a, t, i + 1, N) : t \in {Body(p, a, s, i)}} : TRUE

\* loop p and the statements after it
RunPhase(p, a, s) ==
    AfterLoop(p, a, RunFrom(p, a, s, 0, Cardinality(Indices(p, a, s))))

\* the loops ps[k..] in order: t is the memory loop ps[k] leaves
RECURSIVE RunPhases(_, _, _, _)
RunPhases(ps, a, s, k) ==
    IF k > Len(ps) THEN s
    ELSE CHOOSE r \in {RunPhases(ps, a, t, k + 1) : t \in {RunPhase(ps[k], a, s)}} : TRUE

\* one pass of the while body (lines 119-321)
Iteration(a, s) == RunPhases(PhaseSeq, a, s, 1)

\* mutant: the step limit is tested one too late
GuardLate(a, s) == s.ts <= a.steps + 1 /\ RGt(s.res, a.tol)

\* mutant: the residual is not tested
GuardSteps(a, s) == s.ts <= a.steps

\* the loop guard (line 117)
Guard(a, s) == s.ts <= a.steps /\ RGt(s.res, a.tol)

\* ------------------------------------------------------------------------
\* State
\* ------------------------------------------------------------------------
VARIABLES
    arg,      \* drx_solver_c: the arguments of the call (X, V, S as passed)
    mem,      \* drx_solver_c: X, V, S and the locals f, fx, .., Un, Rn, Uo, res, ts
    pc,       \* drx_solver_c: the position in the while loop
    todo,     \* indices of the current loop not yet executed (thread model)
    written,  \* array elements the executed bodies of the current loop write
    fetched,  \* array elements the executed bodies of the current loop read
    race,     \* two bodies of one parallel loop touched one element, one writing
    snap,     \* history: mem when the current iteration began
    damped,   \* history: the kinetic-damping reset has fired in this call
    sarg,     \* smooth_centroid: the arguments of the call (vertices as passed)
    smem,     \* smooth_centroid: vertices, xyz, the counters k and i, the callbacks made
    spc,      \* smooth_centroid: the position in the sweep loop
    ssnap,    \* history: vertices when the current sweep began
    farg,     \* fd: the arguments of the call (vertices as passed)
    fmem,     \* fd: the caller's arrays and the local matrices
    fpc       \* fd: the position in the routine

drxvars == <<arg, mem, pc, todo, written, fetched, race, snap, damped>>

smvars == <<sarg, smem, spc, ssnap>>

fdvars == <<farg, fmem, fpc>>

vars == <<drxvars, smvars, fdvars>>

\* the routines that are not being called
DrxIdle ==
    /\ arg = <<>> /\ mem = <<>> /\ pc = "idle" /\ todo = {} /\ written = {}
    /\ fetched = {} /\ race = FALSE /\ snap = <<>> /\ damped = FALSE

SmoothIdle == sarg = <<>> /\ smem = <<>> /\ spc = "idle" /\ ssnap = <<>>

FdIdle == farg = <<>> /\ fmem = <<>> /\ fpc = "idle"

\* ------------------------------------------------------------------------
\* drx_solver_c: the calls of the model
\* ------------------------------------------------------------------------

\* per-node x values as an interleaved array [x0,0,0,x1,0,0,..]
OnAxis(xs) ==
    [j \in 0..(3 * Len(xs) - 1) |->
        IF j % 3 = 0 THEN I(xs[(j \div 3) + 1]) ELSE Zero]

\* per-node mask values as the per-component mask [b0,b0,b0,b1,b1,b1,..]
Mask(bs) == [j \in 0..(3 * Len(bs) - 1) |-> I(bs[(j \div 3) + 1])]

\* coordinate-format transpose connectivity of the edges (u[e], v[e]):
\* entry 2e is (u[e], e, -1), entry 2e+1 is (v[e], e, +1)
CtRows(u, v) ==
    [k \in 0..(2 * Len(u) - 1) |->
        IF k % 2 = 0 THEN u[(k \div 2) + 1] ELSE v[(k \div 2) + 1]]

CtCols(u) == [k \in 0..(2 * Len(u) - 1) |-> k \div 2]

CtVals(u) == [k \in 0..(2 * Len(u) - 1) |-> IF k % 2 = 0 THEN I(-1) ELSE One]

\* two nodes joined by one edge
Net1 == [n |-> 2, u |-> <<0>>, v |-> <<1>>,
         inds |-> <<>>, indi |-> <<>>, indf |-> <<>>]

\* three nodes in a row, two edges, the beam triple (0, 1, 2)
Net2 == [n |-> 3, u |-> <<0, 1>>, v |-> <<1, 2>>,
         inds |-> <<0>>, indi |-> <<1>>, indf |-> <<2>>]

\* the argument record of a call
MkArg(net, tol, steps, xs, l0, uni, bs, ps, vs, ss, mass, beams) ==
    [tol |-> tol, steps |-> steps, m |-> Len(net.u), n |-> net.n,
     u |-> Arr(net.u), v |-> Arr(net.v),
     X |-> OnAxis(xs),
     f0 |-> [e \in 0..(Len(net.u) - 1) |-> Zero],
     l0 |-> [e \in 0..(Len(net.u) - 1) |-> I(l0)],
     k0 |-> [e \in 0..(Len(net.u) - 1) |-> One],
     ind_c |-> Arr(uni.c), ind_t |-> Arr(uni.t),
     ind_c_n |-> Len(uni.c), ind_t_n |-> Len(uni.t),
     B |-> Mask(bs), P |-> OnAxis(ps), S |-> OnAxis(ss),
     rows |-> CtRows(net.u, net.v), cols |-> CtCols(net.u),
     vals |-> CtVals(net.u), nv |-> 2 * Len(net.u),
     M |-> [i \in 0..(net.n - 1) |-> I(mass)], factor |-> One,
     V |-> OnAxis(vs),
     inds |-> Arr(net.inds), indi |-> Arr(net.indi), indf |-> Arr(net.indf),
     EIx |-> [i \in 0..(Len(net.inds) - 1) |-> One],
     EIy |-> [i \in 0..(Len(net.inds) - 1) |-> One],
     beams |-> beams, nb |-> IF beams # 0 THEN Len(net.inds) ELSE 0]

Tols == {I(-1), Zero, R(1, 4)}

\* shears passed in with beams off, and shears recomputed with beams on
ShearCases(zero, one) ==
    {[S |-> zero, beams |-> 0], [S |-> one, beams |-> 0], [S |-> one, beams |-> 1]}

Args1 ==
    {MkArg(Net1, tol, steps, <<0, x1>>, l0, uni, bs, <<0, p1>>, vs, sc.S, mass, sc.beams) :
        tol \in Tols, steps \in 0..MaxSteps, x1 \in 1..3, l0 \in {1, 2},
        uni \in {[t |-> <<>>, c |-> <<>>], [t |-> <<0>>, c |-> <<>>],
                 [t |-> <<>>, c |-> <<0>>]},
        bs \in {<<0, 1>>, <<1, 1>>}, p1 \in {0, 1},
        vs \in {<<0, 0>>, <<1, 0>>, <<0, -3>>},
        sc \in ShearCases(<<0, 0>>, <<0, 1>>), mass \in {2}}

Args2 ==
    {MkArg(Net2, tol, steps, xs, l0, uni, bs, <<0, p1, 0>>, vs, sc.S, mass, sc.beams) :
        tol \in Tols, steps \in 0..MaxSteps,
        xs \in {<<0, 1, 2>>, <<0, 2, 3>>, <<0, 1, 3>>}, l0 \in {1, 2},
        uni \in {[t |-> <<>>, c |-> <<>>], [t |-> <<1>>, c |-> <<>>],
                 [t |-> <<>>, c |-> <<1>>], [t |-> <<0, 1>>, c |-> <<>>],
                 [t |-> <<0>>, c |-> <<1>>]},
        bs \in {<<0, 1, 1>>, <<0, 1, 0>>}, p1 \in {0, 1},
        vs \in {<<0, 0, 0>>, <<1, 0, 0>>, <<0, -3, 0>>},
        sc \in ShearCases(<<0, 0, 0>>, <<0, 1, 0>>) \ {[S |-> <<0, 0, 0>>, beams |-> 0]},
        mass \in {1}}

\* lines 51-115: the memory of a call on entry.  The locals f, fx, .., nans,
\* Sa, Sb, Un, Rn are written before they are read; they start at zero here.
InitMem(a) ==
    [X |-> a.X, V |-> a.V, S |-> a.S,
     f |-> [e \in 0..(a.m - 1) |-> Zero],
     fx |-> [e \in 0..(a.m - 1) |-> Zero],
     fy |-> [e \in 0..(a.m - 1) |-> Zero],
     fz |-> [e \in 0..(a.m - 1) |-> Zero],
     frx |-> [i \in 0..(a.n - 1) |-> Zero],
     fry |-> [i \in 0..(a.n - 1) |-> Zero],
     frz |-> [i \in 0..(a.n - 1) |-> Zero],
     Sa |-> [i \in 0..(a.nb - 1) |-> [c \in Comp |-> Zero]],
     Sb |-> [i \in 0..(a.nb - 1) |-> [c \in Comp |-> Zero]],
     nans |-> [i \in 0..(a.nb - 1) |-> 0],
     Un |-> Zero, Rn |-> Zero,
     ts |-> 0, Uo |-> Zero, res |-> RMul(I(1000), a.tol)]

InitOf(a) ==
    /\ arg = a
    /\ mem = InitMem(a)
    /\ pc = "test"
    /\ todo = {}
    /\ written = {}
    /\ fetched = {}
    /\ race = FALSE
    /\ snap = InitMem(a)
    /\ damped = FALSE
    /\ SmoothIdle
    /\ FdIdle

Init == \E a \in Args1 \cup Args2 : InitOf(a)

\* ------------------------------------------------------------------------
\* drx_solver_c, one action per phase of the while loop
\* ------------------------------------------------------------------------
Ghost == UNCHANGED <<arg, todo, written, fetched, race, smvars, fdvars>>

\* line 117: the loop guard
LoopTest ==
    /\ pc = "test"
    /\ pc' = IF Guard(arg, mem) THEN "axial" ELSE "done"
    /\ snap' = IF Guard(arg, mem) THEN mem ELSE snap
    /\ UNCHANGED <<mem, damped>>
    /\ Ghost

\* lines 119-133
AxialForces ==
    /\ pc = "axial"
    /\ mem' = RunPhase("axial", arg, mem)
    /\ pc' = "unilT"
    /\ UNCHANGED <<snap, damped>>
    /\ Ghost

\* lines 135-147
UnilateralTension ==
    /\ pc = "unilT"
    /\ mem' = RunPhase("unilT", arg, mem)
    /\ pc' = "unilC"
    /\ UNCHANGED <<snap, damped>>
    /\ Ghost

\* lines 149-161
UnilateralCompression ==
    /\ pc = "unilC"
    /\ mem' = RunPhase("unilC", arg, mem)
    /\ pc' = "beam"
    /\ UNCHANGED <<snap, damped>>
    /\ Ghost

\* lines 163-262
BeamShears ==
    /\ pc = "beam"
    /\ mem' = RunPhases(<<"zeroS", "shear", "nans", "accum">>, arg, mem, 1)
    /\ pc' = "assemble"
    /\ UNCHANGED <<snap, damped>>
    /\ Ghost

\* lines 264-280
AssembleResiduals ==
    /\ pc = "assemble"
    /\ mem' = RunPhases(<<"zeroFr", "scatter">>, arg, mem, 1)
    /\ pc' = "velocity"
    /\ UNCHANGED <<snap, damped>>
    /\ Ghost

\* lines 282-295
UpdateVelocities ==
    /\ pc = "velocity"
    /\ mem' = RunPhase("velocity", arg, mem)
    /\ pc' = "damp"
    /\ UNCHANGED <<snap, damped>>
    /\ Ghost

\* lines 297-309
KineticDamping ==
    /\ pc = "damp"
    /\ mem' = RunPhase("damp", arg, mem)
    /\ damped' = (damped \/ Indices("damp", arg, mem) # {})
    /\ pc' = "advance"
    /\ UNCHANGED snap
    /\ Ghost

\* lines 311-321
Advance ==
    /\ pc = "advance"
    /\ mem' = RunPhase("advance", arg, mem)
    /\ pc' = "test"
    /\ UNCHANGED <<snap, damped>>
    /\ Ghost

Next ==
    \/ LoopTest
    \/ AxialForces
    \/ UnilateralTension
    \/ UnilateralCompression
    \/ BeamShears
    \/ AssembleResiduals
    \/ UpdateVelocities
    \/ KineticDamping
    \/ Advance

Spec == Init /\ [][Next]_vars

\* ------------------------------------------------------------------------
\* drx_solver_c, one action per loop body: the threads of a parallel loop
\* take the pending indices in any order, a sequential loop in index order
\* ------------------------------------------------------------------------
\* four nodes in a row, three edges, the beam triples (0,1,2) and (1,2,3)
Net3 == [n |-> 4, u |-> <<0, 1, 2>>, v |-> <<1, 2, 3>>,
         inds |-> <<0, 1>>, indi |-> <<1, 2>>, indf |-> <<2, 3>>]

ParArgs ==
    {MkArg(Net2, R(1, 4), steps, xs, 1, uni, <<0, 1, 1>>, <<0, p1, 0>>, vs,
           <<0, 1, 0>>, 1, beams) :
        steps \in 0..MaxSteps,
        xs \in {<<0, 1, 2>>, <<0, 2, 3>>},
        uni \in {[t |-> <<>>, c |-> <<>>], [t |-> <<0, 1>>, c |-> <<>>],
                 [t |-> <<0>>, c |-> <<1>>]},
        p1 \in {0, 1},
        vs \in {<<0, 0, 0>>, <<0, -3, 0>>},
        beams \in {0, 1}}
    \cup
    {MkArg(Net3, R(1, 4), 1, <<0, 2, 3, 5>>, 1, [t |-> <<>>, c |-> <<>>],
           <<0, 1, 1, 0>>, <<0, 1, 0, 0>>, <<0, 0, 0, 0>>, <<0, 1, 0, 0>>, 1, beams) :
        beams \in {0, 1}}

InitPar == \E a \in ParArgs : InitOf(a)

\* the three components of node (or beam row) i of array name
Triple(name, i) == {<<name, 3 * i + c>> : c \in Comp}

\* the array elements the body of loop p may write at index i
Writes(p, a, i) ==
    CASE p = "axial" -> {<<"f", i>>, <<"fx", i>>, <<"fy", i>>, <<"fz", i>>}
      [] p \in {"unilT", "unilC"} -> {<<"fx", i>>, <<"fy", i>>, <<"fz", i>>}
      [] p = "zeroS" -> Triple("S", i)
      [] p = "shear" -> Triple("Sa", i) \cup Triple("Sb", i) \cup {<<"ua", 0>>}
      [] p = "nans" -> {<<"nans", i>>}
      [] p = "accum" ->
             Triple("S", a.inds[i]) \cup Triple("S", a.indi[i]) \cup Triple("S", a.indf[i])
      [] p = "zeroFr" -> {<<"frx", i>>, <<"fry", i>>, <<"frz", i>>}
      [] p = "scatter" ->
             {<<"frx", a.rows[i]>>, <<"fry", a.rows[i]>>, <<"frz", a.rows[i]>>}
      [] p \in {"velocity", "damp"} -> Triple("V", i)
      [] p = "advance" -> Triple("X", i)

\* the array elements the body of loop p may read at index i, among the
\* arrays the while loop writes
Reads(p, a, i) ==
    CASE p = "axial" -> Triple("X", a.u[i]) \cup Triple("X", a.v[i]) \cup {<<"f", i>>}
      [] p \in {"unilT", "unilC"} -> {<<"f", i>>}
      [] p = "zeroS" -> {}
      [] p = "shear" ->
             Triple("X", a.inds[i]) \cup Triple("X", a.indi[i]) \cup Triple("X", a.indf[i])
      [] p = "nans" -> Triple("Sa", i) \cup Triple("Sb", i)
      [] p = "accum" ->
             Triple("Sa", i) \cup Triple("Sb", i) \cup {<<"nans", i>>} \cup Writes(p, a, i)
      [] p = "zeroFr" -> {}
      [] p = "scatter" ->
             {<<"fx", a.cols[i]>>, <<"fy", a.cols[i]>>, <<"fz", a.cols[i]>>}
                 \cup Writes(p, a, i)
      [] p = "velocity" ->
             Triple("S", i) \cup {<<"frx", i>>, <<"fry", i>>, <<"frz", i>>} \cup Triple("V", i)
      [] p = "damp" -> {}
      [] p = "advance" -> Triple("V", i) \cup Triple("X", i)

Positions(p) == {k \in 1..Len(PhaseSeq) : PhaseSeq[k] = p}

\* the loop that follows loop p; the guard follows the last one
NextPhase(p) ==
    LET k == CHOOSE x \in Positions(p) : TRUE
    IN  IF k = Len(PhaseSeq) THEN "test" ELSE PhaseSeq[k + 1]

Least(set) == CHOOSE x \in set : \A y \in set : x <= y

\* line 117: the loop guard, then entry of the first loop
GuardStep ==
    /\ pc = "test"
    /\ pc' = IF Guard(arg, mem) THEN "axial" ELSE "done"
    /\ todo' = IF Guard(arg, mem) THEN Indices("axial", arg, mem) ELSE {}
    /\ snap' = IF Guard(arg, mem) THEN mem ELSE snap
    /\ written' = {}
    /\ fetched' = {}
    /\ UNCHANGED <<arg, mem, race, damped, smvars, fdvars>>

\* one body of a work-shared loop, on any thread: any pending index
ParallelBody ==
    /\ pc \in ParallelPhases
    /\ \E i \in todo :
          /\ mem' = Body(pc, arg, mem, i)
          /\ todo' = todo \ {i}
          /\ written' = written \cup Writes(pc, arg, i)
          /\ fetched' = fetched \cup Reads(pc, arg, i)
          /\ race' = (\/ race
                      \/ Writes(pc, arg, i) \cap (written \cup fetched) # {}
                      \/ Reads(pc, arg, i) \cap written # {})
    /\ UNCHANGED <<arg, pc, snap, damped, smvars, fdvars>>

\* one body of a loop without a pragma: the least pending index
SequentialBody ==
    /\ pc \in {PhaseSeq[k] : k \in 1..Len(PhaseSeq)} \ ParallelPhases
    /\ todo # {}
    /\ mem' = Body(pc, arg, mem, Least(todo))
    /\ todo' = todo \ {Least(todo)}
    /\ UNCHANGED <<arg, pc, written, fetched, race, snap, damped, smvars, fdvars>>

\* the end of a loop (the implicit barrier of a work-shared one), the
\* statements after it, and entry of the next loop
LoopEnd ==
    /\ pc \in {PhaseSeq[k] : k \in 1..Len(PhaseSeq)}
    /\ todo = {}
    /\ mem' = AfterLoop(pc, arg, mem)
    /\ pc' = NextPhase(pc)
    /\ todo' = IF NextPhase(pc) = "test" THEN {} ELSE Indices(NextPhase(pc), arg, mem')
    /\ damped' = (damped \/ (NextPhase(pc) = "damp" /\ todo' # {}))
    /\ written' = {}
    /\ fetched' = {}
    /\ UNCHANGED <<arg, race, snap, smvars, fdvars>>

NextPar ==
    \/ GuardStep
    \/ ParallelBody
    \/ SequentialBody
    \/ LoopEnd

SpecPar == InitPar /\ [][NextPar]_vars

\* ------------------------------------------------------------------------
\* Claims about drx_solver_c
\* ------------------------------------------------------------------------
DOF == 0..(3 * arg.n - 1)

Returned == pc = "done"

\* an iteration has just been completed
IterationEnd == pc = "test" /\ mem.ts > 0

\* C1 as stated: at every degree of freedom j with B[j] = 0, V[j] holds its
\* input value after every iteration and at return.
C1_Original ==
    (IterationEnd \/ Returned) =>
        \A j \in DOF : arg.B[j] = Zero => mem.V[j] = arg.V[j]

\* C1 amended: at every degree of freedom j with B[j] = 0, V[j] holds its
\* input value until the kinetic-damping reset first fires and 0 from then
\* on, for as long as V[j] is not NaN.
C1_MaskedVelocity ==
    \A j \in DOF :
        (arg.B[j] = Zero /\ ~IsNaN(mem.V[j])) =>
            mem.V[j] = IF damped THEN Zero ELSE arg.V[j]

\* C1 witness: a supported degree of freedom that came in with a nonzero
\* velocity, after an iteration whose reset fired.
C1_Witness ==
    /\ IterationEnd
    /\ damped
    /\ \E j \in DOF : arg.B[j] = Zero /\ arg.V[j] # Zero /\ mem.V[j] = Zero

\* edge e is listed in list[0..len)
Listed(list, len, e) == \E k \in 0..(len - 1) : list[k] = e

\* the unilateral rule for edge e: tension-only and in compression, or
\* compression-only and in tension
MustZero(e) ==
    \/ Listed(arg.ind_t, arg.ind_t_n, e) /\ RLt(mem.f[e], Zero)
    \/ Listed(arg.ind_c, arg.ind_c_n, e) /\ RGt(mem.f[e], Zero)

\* C2 as stated: after the unilateral phase of every iteration the force
\* components of edge e are zero if e is listed in ind_t with f[e] < 0 or in
\* ind_c with f[e] > 0, and are the axial values otherwise.
C2_Original ==
    pc = "beam" =>
        \A e \in 0..(arg.m - 1) :
            LET ax == AxialBody(arg, mem, e)
            IN  IF MustZero(e)
                THEN mem.fx[e] = Zero /\ mem.fy[e] = Zero /\ mem.fz[e] = Zero
                ELSE mem.fx[e] = ax.fx[e] /\ mem.fy[e] = ax.fy[e] /\ mem.fz[e] = ax.fz[e]

\* the positions of the phase actions in the while loop
PhasePositions ==
    {"test", "axial", "unilT", "unilC", "beam", "assemble", "velocity", "damp",
     "advance", "done"}

\* a step of the running call.  Every action of Next changes pc, and one of
\* them is enabled exactly when pc is not "done", so weak fairness of this
\* action is weak fairness of Next: a running call keeps executing.
Running == pc # "done" /\ pc' \in PhasePositions \ {pc}

SpecFair == Spec /\ WF_pc(Running)

\* C3 as stated: ts never exceeds steps + 1, and the call returns with
\* ts > steps or with res <= tol.
C3_Original ==
    /\ mem.ts <= arg.steps + 1
    /\ Returned => (mem.ts > arg.steps \/ RLe(mem.res, arg.tol))

\* C3 amended: the call returns, ts never exceeds steps + 1, and at return
\* ts > steps or res > tol is false (res <= tol, or res is NaN).
C3_Termination ==
    /\ [](mem.ts <= arg.steps + 1)
    /\ [](Returned => (mem.ts > arg.steps \/ RLe(mem.res, arg.tol) \/ IsNaN(mem.res)))
    /\ <>Returned

\* C3 witness: a return before the step limit with a NaN residual.
C3_Witness == Returned /\ mem.ts <= arg.steps /\ IsNaN(mem.res) /\ mem.ts > 1

\* C4: when the Un of an iteration is below the previous Uo every velocity
\* is 0 at the end of the iteration and X is as the iteration found it;
\* otherwise the damping phase changes no velocity; Uo is set to that Un.
C4_KineticDamping ==
    /\ [](IterationEnd =>
            /\ mem.Uo = mem.Un
            /\ RLt(mem.Un, snap.Uo) =>
                  (\A j \in DOF : mem.V[j] = Zero) /\ mem.X = snap.X)
    /\ [][(pc = "damp" /\ ~RLt(mem.Un, mem.Uo)) => mem'.V = mem.V]_vars

\* C4 witness: the end of an iteration that passed an energy peak with
\* nonzero velocities.
C4_Witness ==
    /\ IterationEnd
    /\ RLt(mem.Un, snap.Uo)
    /\ \E j \in DOF : snap.V[j] # Zero
    /\ \E j \in DOF : arg.B[j] = Zero /\ snap.V[j] # Zero

\* the memory of the first iteration when it reaches the velocity update
FirstAssembled ==
    RunPhases(<<"axial", "unilT", "unilC", "zeroS", "shear", "nans", "accum",
                "zeroFr", "scatter">>, arg, InitMem(arg), 1)

\* the residual (P - S - fr) * B at degree of freedom j in memory s
Residual(s, j) ==
    LET fr == IF j % 3 = 0 THEN s.frx[j \div 3]
              ELSE IF j % 3 = 1 THEN s.fry[j \div 3] ELSE s.frz[j \div 3]
    IN  RMul(RSub(RSub(arg.P[j], s.S[j]), fr), arg.B[j])

\* the input satisfies (P - S - fr) * B = 0 at every degree of freedom
AtEquilibrium == LET s == FirstAssembled IN \A j \in DOF : Residual(s, j) = Zero

AtRest == \A j \in DOF : arg.V[j] = Zero

\* no second iteration runs, and the call returns with res <= tol and X as
\* passed
StaysPut ==
    /\ mem.ts <= 1
    /\ Returned => (RLe(mem.res, arg.tol) /\ mem.X = arg.X)

\* C5 as stated: from an input at equilibrium no second iteration runs, and
\* the call returns with res <= tol and X as passed.
C5_Original == StaysPut \/ ~AtEquilibrium

\* C5 amended: from an input at equilibrium whose velocities are all 0, no
\* second iteration runs, and the call returns with res <= tol and X as
\* passed.
C5_Equilibrium == StaysPut \/ ~AtRest \/ ~AtEquilibrium

\* C5 witness: a return after one iteration from an equilibrium at rest
\* that has a loaded edge.
C5_Witness ==
    /\ Returned
    /\ mem.ts = 1
    /\ AtRest
    /\ \E e \in 0..(arg.m - 1) : mem.fx[e] # Zero
    /\ AtEquilibrium

\* C10 as stated: the loop body has run at least once when the call returns.
C10_Original == Returned => mem.ts >= 1

AllFinite ==
    /\ \A j \in DOF : IsFinite(arg.P[j]) /\ IsFinite(mem.S[j])
    /\ \A e \in 0..(arg.m - 1) :
          IsFinite(mem.f[e]) /\ IsFinite(mem.fx[e]) /\ IsFinite(mem.fy[e]) /\ IsFinite(mem.fz[e])
    /\ \A i \in 0..(arg.n - 1) :
          IsFinite(mem.frx[i]) /\ IsFinite(mem.fry[i]) /\ IsFinite(mem.frz[i])

\* the unmasked residual P - S - fr at degree of freedom j
Unmasked(j) ==
    RSub(RSub(arg.P[j], mem.S[j]),
         CASE j % 3 = 0 -> mem.frx[j \div 3]
           [] j % 3 = 1 -> mem.fry[j \div 3]
           [] j % 3 = 2 -> mem.frz[j \div 3])

\* C11: at every degree of freedom j with B[j] = 0 that came in with
\* V[j] = 0, as long as the loads, shears and forces are finite (M[i] *
\* factor is never 0 in the calls of the model), V[j] is 0 and X[j] holds
\* its input value, at every point of the call and so after every iteration
\* and at return.
C11_SupportsStay ==
    \A j \in DOF :
        (arg.B[j] = Zero /\ arg.V[j] = Zero /\ AllFinite) =>
            (mem.V[j] = Zero /\ mem.X[j] = arg.X[j])

\* C11 witness: the end of a second or later iteration, after a reset has
\* fired, with finite forces, in which a supported degree of freedom that
\* came in at rest carries a nonzero unmasked residual while another
\* degree of freedom has moved.
C11_Witness ==
    /\ IterationEnd
    /\ mem.ts > 1
    /\ damped
    /\ AllFinite
    /\ \E j \in DOF :
          /\ arg.B[j] = Zero
          /\ arg.V[j] = Zero
          /\ Unmasked(j) # Zero
          /\ mem.V[j] = Zero
          /\ mem.X[j] = arg.X[j]
    /\ \E j \in DOF : mem.X[j] # arg.X[j]

\* ------------------------------------------------------------------------
\* smooth_centroid (_smoothing_cpp/src/main.cpp)
\* ------------------------------------------------------------------------
MaxK == 2

\* a vertex array written as a tuple of integer triples
Points(ps) == [i \in 0..(Len(ps) - 1) |-> [c \in Comp |-> I(ps[i + 1][c + 1])]]

\* int** neighbours written as a tuple of tuples
Adjacency(ns) == [i \in 0..(Len(ns) - 1) |-> Arr(ns[i + 1])]

SmoothArg(ps, ns, fx, kmax) ==
    [v |-> Len(ps),
     nbrs |-> [i \in 0..(Len(ns) - 1) |-> Len(ns[i + 1])],
     fixed |-> Arr(fx),
     vertices |-> Points(ps),
     neighbours |-> Adjacency(ns),
     kmax |-> kmax]

\* a path, a triangle, a pair with an isolated vertex, and a path whose
\* vertex 1 lists vertex 0 twice
Graphs ==
    {<<<<1>>, <<0, 2>>, <<1>>>>,
     <<<<1, 2>>, <<0, 2>>, <<0, 1>>>>,
     <<<<1>>, <<0>>, <<>>>>,
     <<<<1>>, <<0, 0, 2>>, <<1>>>>}

SmoothArgs ==
    {SmoothArg(ps, ns, fx, kmax) :
        ps \in {<<<<0, 0, 0>>, <<1, 0, 0>>, <<2, 0, 0>>>>,
                <<<<0, 0, 0>>, <<1, 1, 0>>, <<2, 0, 0>>>>,
                <<<<0, 0, 0>>, <<3, 1, 2>>, <<1, 2, -1>>>>},
        ns \in Graphs,
        fx \in {<<a, b, c>> : a \in {0, 1, 2}, b \in {0, 1}, c \in {0, 1}},
        kmax \in 0..MaxK}

\* line 23: xyz is v rows of three zeros; k starts at 0 (line 26)
SmoothInitMem(a) ==
    [vertices |-> a.vertices,
     xyz |-> [i \in 0..(a.v - 1) |-> [c \in Comp |-> Zero]],
     k |-> 0, i |-> 0, calls |-> <<>>]

InitSmooth ==
    /\ \E a \in SmoothArgs :
          /\ sarg = a
          /\ smem = SmoothInitMem(a)
          /\ ssnap = a.vertices
    /\ spc = "head"
    /\ DrxIdle
    /\ FdIdle

\* lines 41-49: the sums cx, cy, cz over the first j neighbours of vertex
\* i, read from xyz, and the count c
RECURSIVE NeighbourSum(_, _, _, _)
NeighbourSum(a, xyz, i, j) ==
    IF j = 0 THEN [cx |-> Zero, cy |-> Zero, cz |-> Zero, c |-> Zero]
    ELSE LET acc == NeighbourSum(a, xyz, i, j - 1)
             n == a.neighbours[i][j - 1]
         IN  [cx |-> RAdd(acc.cx, xyz[n][0]),
              cy |-> RAdd(acc.cy, xyz[n][1]),
              cz |-> RAdd(acc.cz, xyz[n][2]),
              c |-> RAdd(acc.c, One)]

\* mutant: the free vertices are the ones kept
VertexBodyInverted(a, s, i) ==
    LET acc == NeighbourSum(a, s.xyz, i, a.nbrs[i])
    IN  IF a.fixed[i] # 0
        THEN [s EXCEPT !.vertices[i] =
                 [c \in Comp |->
                     CASE c = 0 -> RDiv(acc.cx, acc.c)
                       [] c = 1 -> RDiv(acc.cy, acc.c)
                       [] c = 2 -> RDiv(acc.cz, acc.c)]]
        ELSE s

\* mutant: the neighbours are read from vertices, not from the snapshot xyz
VertexBodyInPlace(a, s, i) ==
    LET acc == NeighbourSum(a, s.vertices, i, a.nbrs[i])
    IN  IF a.fixed[i] = 0
        THEN [s EXCEPT !.vertices[i] =
                 [c \in Comp |->
                     CASE c = 0 -> RDiv(acc.cx, acc.c)
                       [] c = 1 -> RDiv(acc.cy, acc.c)
                       [] c = 2 -> RDiv(acc.cz, acc.c)]]
        ELSE s

\* lines 35-55: the body of the vertex loop for vertex i
VertexBody(a, s, i) ==
    LET acc == NeighbourSum(a, s.xyz, i, a.nbrs[i])
    IN  IF a.fixed[i] = 0
        THEN [s EXCEPT !.vertices[i] =
                 [c \in Comp |->
                     CASE c = 0 -> RDiv(acc.cx, acc.c)
                       [] c = 1 -> RDiv(acc.cy, acc.c)
                       [] c = 2 -> RDiv(acc.cz, acc.c)]]
        ELSE s

\* line 26: the sweep loop test
SweepTest ==
    /\ spc = "head"
    /\ spc' = IF smem.k < sarg.kmax THEN "copy" ELSE "done"
    /\ ssnap' = smem.vertices
    /\ UNCHANGED <<sarg, smem, drxvars, fdvars>>

\* lines 28-32: snapshot of the coordinates into xyz
Snapshot ==
    /\ spc = "copy"
    /\ smem' = [smem EXCEPT !.xyz = smem.vertices, !.i = 0]
    /\ spc' = "vertex"
    /\ UNCHANGED <<sarg, ssnap, drxvars, fdvars>>

\* lines 34-56: one pass of the vertex loop
SmoothVertex ==
    /\ spc = "vertex"
    /\ smem.i < sarg.v
    /\ smem' = [VertexBody(sarg, smem, smem.i) EXCEPT !.i = smem.i + 1]
    /\ UNCHANGED <<sarg, spc, ssnap, drxvars, fdvars>>

\* line 34: the vertex loop ends
SweepEnd ==
    /\ spc = "vertex"
    /\ smem.i >= sarg.v
    /\ spc' = "call"
    /\ UNCHANGED <<sarg, smem, ssnap, drxvars, fdvars>>

\* line 58 and the k++ of line 26: the callback receives k
Callback ==
    /\ spc = "call"
    /\ smem' = [smem EXCEPT !.calls = Append(@, smem.k), !.k = smem.k + 1]
    /\ spc' = "head"
    /\ UNCHANGED <<sarg, ssnap, drxvars, fdvars>>

NextSmooth ==
    \/ SweepTest
    \/ Snapshot
    \/ SmoothVertex
    \/ SweepEnd
    \/ Callback

SpecSmooth == InitSmooth /\ [][NextSmooth]_vars

\* ------------------------------------------------------------------------
\* Claims about smooth_centroid
\* ------------------------------------------------------------------------
Vertices == 0..(sarg.v - 1)

\* C6: every vertex with fixed[i] != 0 holds its input coordinates at every
\* point of the call; on a fully fixed graph the coordinates are the input
\* for any kmax; with kmax = 0 no vertex is modified and the callback is
\* not invoked.
C6_FixedKept ==
    /\ \A i \in Vertices : sarg.fixed[i] # 0 => smem.vertices[i] = sarg.vertices[i]
    /\ (\A i \in Vertices : sarg.fixed[i] # 0) => smem.vertices = sarg.vertices
    /\ sarg.kmax = 0 => (smem.vertices = sarg.vertices /\ smem.calls = <<>>)

\* the arithmetic mean of the coordinates the neighbours of i have in pts,
\* summed from the last listed neighbour to the first
RECURSIVE SumFrom(_, _, _, _)
SumFrom(pts, i, j, c) ==
    IF j >= sarg.nbrs[i] THEN Zero
    ELSE RAdd(SumFrom(pts, i, j + 1, c), pts[sarg.neighbours[i][j]][c])

Centroid(pts, i) == [c \in Comp |-> RDiv(SumFrom(pts, i, 0, c), I(sarg.nbrs[i]))]

\* C6 witness: the call has returned after a sweep that moved a free
\* vertex, with a fixed vertex that is not at the centroid of its
\* neighbours.
C6_Witness ==
    /\ spc = "done"
    /\ sarg.kmax > 0
    /\ \E i \in Vertices : sarg.fixed[i] = 0 /\ smem.vertices[i] # sarg.vertices[i]
    /\ \E i \in Vertices :
          /\ sarg.fixed[i] # 0
          /\ sarg.nbrs[i] > 0
          /\ Centroid(smem.vertices, i) # smem.vertices[i]

\* C7: when a sweep ends, every free vertex with neighbours is at the
\* arithmetic mean of the coordinates its neighbours had when the sweep
\* began.
C7_Jacobi ==
    spc = "call" =>
        \A i \in Vertices :
            (sarg.fixed[i] = 0 /\ sarg.nbrs[i] > 0) =>
                smem.vertices[i] = Centroid(ssnap, i)

\* C7 witness: the end of a sweep in which a free vertex has a free
\* neighbour of lower index that the sweep had already moved.
C7_Witness ==
    /\ spc = "call"
    /\ \E i \in Vertices :
          /\ sarg.fixed[i] = 0
          /\ \E j \in 0..(sarg.nbrs[i] - 1) :
                LET n == sarg.neighbours[i][j]
                IN  n < i /\ sarg.fixed[n] = 0 /\ smem.vertices[n] # ssnap[n]
          /\ smem.vertices[i] # ssnap[i]

\* ------------------------------------------------------------------------
\* fd (__fd_cpp/src/main.cpp)
\* ------------------------------------------------------------------------
\* An Eigen matrix of n rows and m columns is a function from 0..n-1 to
\* functions from 0..m-1.

\* igl::slice(X, rs, cs, Y): Y(r, c) = X(rs(r), cs(c))
slice(X, rs, nr, cs, nc) ==
    [r \in 0..(nr - 1) |-> [c \in 0..(nc - 1) |-> X[rs[r]][cs[c]]]]

\* Eigen transpose of an n by m matrix
transpose(X, n, m) ==
    [r \in 0..(m - 1) |-> [c \in 0..(n - 1) |-> X[c][r]]]

\* entry (r, c) of the product X * Y summed over the first k inner indices
RECURSIVE ProductEntry(_, _, _, _, _)
ProductEntry(X, Y, r, c, k) ==
    IF k = 0 THEN Zero
    ELSE RAdd(ProductEntry(X, Y, r, c, k - 1), RMul(X[r][k - 1], Y[k - 1][c]))

\* Eigen product of an n by k and a k by m matrix
Product(X, n, k, Y, m) ==
    [r \in 0..(n - 1) |-> [c \in 0..(m - 1) |-> ProductEntry(X, Y, r, c, k)]]

\* Eigen difference of two n by m matrices
Difference(X, Y, n, m) ==
    [r \in 0..(n - 1) |-> [c \in 0..(m - 1) |-> RSub(X[r][c], Y[r][c])]]

\* the n-1 by n-1 matrix left of X without row 0 and column j
Minor(X, n, j) ==
    [r \in 0..(n - 2) |-> [c \in 0..(n - 2) |-> X[r + 1][IF c < j THEN c ELSE c + 1]]]

RECURSIVE Det(_, _), Laplace(_, _, _)
\* the expansion of the determinant along row 0 over the first j columns
Laplace(X, n, j) ==
    IF j = 0 THEN Zero
    ELSE RAdd(Laplace(X, n, j - 1),
              RMul(RMul(I(IF (j - 1) % 2 = 0 THEN 1 ELSE -1), X[0][j - 1]),
                   Det(Minor(X, n, j - 1), n - 1)))

Det(X, n) == IF n = 0 THEN One ELSE Laplace(X, n, n)

\* A with column j replaced by column c of b
ReplaceColumn(A, n, j, b, c) ==
    [r \in 0..(n - 1) |-> [k \in 0..(n - 1) |-> IF k = j THEN b[r][c] ELSE A[r][k]]]

\* line 76: the solutions A.colPivHouseholderQr().solve(b) may return.
\* For a nonsingular A it is the solution of A * Xi = b; for a singular A
\* the factorisation returns some n by 3 matrix, of which a few are
\* enumerated.
Solutions(A, b, n) ==
    IF n = 0 \/ Det(A, n) # Zero
    THEN {[r \in 0..(n - 1) |-> [c \in Comp |->
              RDiv(Det(ReplaceColumn(A, n, r, b, c), n), Det(A, n))]]}
    ELSE {[r \in 0..(n - 1) |-> [c \in Comp |-> w]] : w \in {Zero, One, NaN}}

FdArg(ps, es, ls, qs, fx, fr) ==
    [numv |-> Len(ps), nume |-> Len(es), numfix |-> Len(fx),
     vertices |-> Points(ps),
     edges |-> [e \in 0..(Len(es) - 1) |-> Arr(es[e + 1])],
     loads |-> Points(ls),
     q |-> [e \in 0..(Len(qs) - 1) |-> I(qs[e + 1])],
     fixed |-> Arr(fx),
     free |-> Arr(fr)]

\* the last pair lists vertex 1 as both fixed and free
Partitions ==
    {<<<<0, 2>>, <<1>>>>, <<<<0>>, <<1, 2>>>>, <<<<2>>, <<1, 0>>>>,
     <<<<0, 1, 2>>, <<>>>>, <<<<>>, <<0, 1, 2>>>>, <<<<0, 1>>, <<1>>>>}

FdArgs ==
    {FdArg(ps, eq[1], ls, eq[2], part[1], part[2]) :
        ps \in {<<<<0, 0, 0>>, <<1, 1, 0>>, <<4, 0, 0>>>>,
                <<<<0, 0, 0>>, <<3, 1, 2>>, <<1, 2, -1>>>>},
        eq \in {<<<<<<0, 1>>, <<1, 2>>>>, <<1, 1>>>>,
                <<<<<<0, 1>>, <<1, 2>>>>, <<1, 3>>>>,
                <<<<<<0, 1>>, <<1, 2>>, <<2, 0>>>>, <<1, 2, 1>>>>,
                <<<<<<0, 1>>, <<1, 2>>, <<2, 0>>>>, <<1, -1, 0>>>>},
        ls \in {<<<<0, 0, 0>>, <<0, 0, 0>>, <<0, 0, 0>>>>,
                <<<<0, 0, 1>>, <<0, 0, -2>>, <<1, 0, 0>>>>},
        part \in Partitions}

\* lines 14-39: the arguments in memory, numfree, and the locals not yet
\* filled
FdInitMem(a) ==
    [vertices |-> a.vertices, edges |-> a.edges, loads |-> a.loads, q |-> a.q,
     numfree |-> a.numv - a.numfix,
     free_vertices |-> <<>>, fixed_vertices |-> <<>>,
     X |-> <<>>, P |-> <<>>, Q |-> <<>>, C |-> <<>>,
     Pi |-> <<>>, Xf |-> <<>>, Pf |-> <<>>, Ci |-> <<>>, Cf |-> <<>>,
     Cit |-> <<>>, A |-> <<>>, b |-> <<>>, Xi |-> <<>>, i |-> 0]

InitFd ==
    /\ \E a \in FdArgs :
          /\ farg = a
          /\ fmem = FdInitMem(a)
    /\ fpc = "gather"
    /\ DrxIdle
    /\ SmoothIdle

\* mutant: row i of Xi goes to row i of vertices
WriteRowDirect(a, s, i) ==
    [s EXCEPT !.vertices[i] = s.Xi[i]]

\* lines 84-86: row i of Xi goes to row free[i] of vertices
WriteRow(a, s, i) ==
    [s EXCEPT !.vertices[a.free[i]] = s.Xi[i]]

\* lines 42-63: index vectors, C, Q, X and P
FdGather ==
    /\ fpc = "gather"
    /\ LET Cij(r, c) == IF c = fmem.edges[r][1] THEN One
                        ELSE IF c = fmem.edges[r][0] THEN I(-1) ELSE Zero
           Qij(r, c) == IF r = c THEN fmem.q[r] ELSE Zero
       IN  fmem' = [fmem EXCEPT
                       !.free_vertices = [i \in 0..(fmem.numfree - 1) |-> farg.free[i]],
                       !.fixed_vertices = [i \in 0..(farg.numfix - 1) |-> farg.fixed[i]],
                       !.C = [r \in 0..(farg.nume - 1) |->
                                [c \in 0..(farg.numv - 1) |-> Cij(r, c)]],
                       !.Q = [r \in 0..(farg.nume - 1) |->
                                [c \in 0..(farg.nume - 1) |-> Qij(r, c)]],
                       !.X = fmem.vertices,
                       !.P = fmem.loads]
    /\ fpc' = "slice"
    /\ UNCHANGED <<farg, drxvars, smvars>>

\* lines 65-69: the free and fixed blocks of P, X and C
FdSlice ==
    /\ fpc = "slice"
    /\ LET cols == Arr(<<0, 1, 2>>)
           rows == [e \in 0..(farg.nume - 1) |-> e]
           nfree == fmem.numfree
           nfix == farg.numfix
       IN  fmem' = [fmem EXCEPT
                       !.Pi = slice(fmem.P, fmem.free_vertices, nfree, cols, 3),
                       !.Xf = slice(fmem.X, fmem.fixed_vertices, nfix, cols, 3),
                       !.Pf = slice(fmem.P, fmem.fixed_vertices, nfix, cols, 3),
                       !.Ci = slice(fmem.C, rows, farg.nume, fmem.free_vertices, nfree),
                       !.Cf = slice(fmem.C, rows, farg.nume, fmem.fixed_vertices, nfix)]
    /\ fpc' = "assemble"
    /\ UNCHANGED <<farg, drxvars, smvars>>

\* lines 71-74: Cit, A = Cit Q Ci and b = Pi - Cit Q Cf Xf
FdAssemble ==
    /\ fpc = "assemble"
    /\ LET nfree == fmem.numfree
           nfix == farg.numfix
           nume == farg.nume
           Cit == transpose(fmem.Ci, nume, nfree)
           CitQ == Product(Cit, nfree, nume, fmem.Q, nume)
           CitQCf == Product(CitQ, nfree, nume, fmem.Cf, nfix)
       IN  fmem' = [fmem EXCEPT
                       !.Cit = Cit,
                       !.A = Product(CitQ, nfree, nume, fmem.Ci, nfree),
                       !.b = Difference(fmem.Pi,
                                        Product(CitQCf, nfree, nfix, fmem.Xf, 3),
                                        nfree, 3)]
    /\ fpc' = "solve"
    /\ UNCHANGED <<farg, drxvars, smvars>>

\* line 76: the linear solve
FdSolve ==
    /\ fpc = "solve"
    /\ \E Xi \in Solutions(fmem.A, fmem.b, fmem.numfree) :
          fmem' = [fmem EXCEPT !.Xi = Xi, !.i = 0]
    /\ fpc' = "write"
    /\ UNCHANGED <<farg, drxvars, smvars>>

\* lines 83-87: one pass of the write-back loop
FdWrite ==
    /\ fpc = "write"
    /\ fmem.i < fmem.numfree
    /\ fmem' = [WriteRow(farg, fmem, fmem.i) EXCEPT !.i = fmem.i + 1]
    /\ UNCHANGED <<farg, fpc, drxvars, smvars>>

\* lines 83, 89: the write-back loop ends and fd returns
FdReturn ==
    /\ fpc = "write"
    /\ fmem.i >= fmem.numfree
    /\ fpc' = "done"
    /\ UNCHANGED <<farg, fmem, drxvars, smvars>>

NextFd ==
    \/ FdGather
    \/ FdSlice
    \/ FdAssemble
    \/ FdSolve
    \/ FdWrite
    \/ FdReturn

SpecFd == InitFd /\ [][NextFd]_vars

\* ------------------------------------------------------------------------
\* Claims about fd
\* ------------------------------------------------------------------------
FreeRows == {farg.free[i] : i \in 0..(farg.numv - farg.numfix - 1)}

FixedRows == {farg.fixed[i] : i \in 0..(farg.numfix - 1)}

\* C8: fd writes only the rows vertices[free[i]], i < numv - numfix: every
\* other row holds its input throughout; with disjoint free and fixed index
\* sets every vertex listed in fixed holds its input; with numfree = 0 no
\* coordinate is modified; loads, q and edges are never written.
C8_FdFrame ==
    /\ [](/\ \A r \in 0..(farg.numv - 1) :
                r \notin FreeRows => fmem.vertices[r] = farg.vertices[r]
          /\ FreeRows \cap FixedRows = {} =>
                \A r \in FixedRows : fmem.vertices[r] = farg.vertices[r]
          /\ farg.numv = farg.numfix => fmem.vertices = farg.vertices
          /\ fmem.loads = farg.loads
          /\ fmem.q = farg.q
          /\ fmem.edges = farg.edges)
    /\ [][\A r \in 0..(farg.numv - 1) :
             fmem'.vertices[r] # fmem.vertices[r] =>
                 (fpc = "write" /\ fmem.i < fmem.numfree /\ r = farg.free[fmem.i])]_vars

\* C8 witness: fd has returned, the index sets are disjoint, there are
\* fixed vertices, and a free vertex whose index differs from its position
\* in free has been moved.
C8_Witness ==
    /\ fpc = "done"
    /\ FixedRows # {}
    /\ FreeRows \cap FixedRows = {}
    /\ \E i \in 0..(fmem.numfree - 1) :
          /\ farg.free[i] # i
          /\ fmem.vertices[farg.free[i]] # farg.vertices[farg.free[i]]
          /\ fmem.vertices[farg.free[i]] = fmem.Xi[i]

====
